---- MODULE Spec2Model ----
(***************************************************************************)
(* Model of wordify/mvp.py: OCR of a PDF, one task per page on a bounded   *)
(* thread pool, results collected in a lock-protected dict and reassembled *)
(* in page order.                                                          *)
(*                                                                         *)
(* Strings are sequences of tokens (a token is a short string); Python's   *)
(* None is the record NoneVal and a value v is Some(v).  The file system   *)
(* is the existence of the directory temp_ocr_images, the set of files in  *)
(* it (a file is <<page number, thread ident>>, the two parts of its name) *)
(* and the content of the output file.                                     *)
(*                                                                         *)
(* A behaviour of Spec is one run of main().  A behaviour of SpecTwice is   *)
(* main() run twice in a row on the same command line, the same PDF and    *)
(* the same answers of the external programs, the file system being kept   *)
(* from the first run to the second.                                       *)
(***************************************************************************)
EXTENDS Integers, Sequences, FiniteSets, TLC

\* Largest number of pages of the PDF.
MaxPages == 3
\* Largest value of --threads.
MaxThreads == 2
\* multiprocessing.cpu_count() of the host.
CpuCount == 1

VARIABLES
  \* ---- the inputs: command line and answers of the environment
  preflightOk,   \* check_dependencies() finds poppler and tesseract
  pdfExists,     \* os.path.exists(pdf_path)
  rasterOk,      \* convert_from_path returns (FALSE: it raises)
  threadsArg,    \* args.threads: NoThreads for None, else the integer
  outputArg,     \* args.output: TRUE when a path is given, FALSE for None
  writeResp,     \* what writing the output file does ("unasked" until it is tried)
  pages,         \* the page images: pages[p] is what happens to page p (a Kind)
  \* ---- the file system
  dirExists,     \* temp_ocr_images exists
  files,         \* the files in temp_ocr_images
  outFile,       \* the output file: NoneVal when absent, else Some(content)
  \* ---- extract_text_from_pdf
  pc,            \* where main / extract_text_from_pdf is
  images,        \* len(images); 0 before the conversion
  max_threads,   \* the local max_threads once set (NoThreads: None)
  submitted,     \* number of pages submitted to the executor
  extracted_text,
  result,        \* value returned by extract_text_from_pdf
  failure,       \* why the run returned None ("none" when it did not)
  stdout,        \* the text main printed after "Extracted Text:" (NoneVal: nothing)
  \* ---- ThreadPoolExecutor
  numThreads,    \* threads spawned so far; thread w has ident w
  idleSem,       \* the executor's idle semaphore
  queue,         \* the work queue: page numbers, oldest first
  fut,           \* fut[p]: state of the future of page p
  wpc,           \* wpc[w]: where worker thread w is
  wpage,         \* wpage[w]: the page worker w processes (0: none)
  \* ---- PageProcessor
  results,       \* self.results: a dict, kept in insertion order
  lock,          \* self.lock: 0 when free, else the worker holding it
  \* ---- the sequence of runs
  run,           \* number of the current run
  doc1,          \* value returned by the first run
  \* ---- another run of the program in the same working directory
  other          \* where it is, and the ident of its pool thread

vars == <<preflightOk, pdfExists, rasterOk, threadsArg, outputArg, writeResp, pages,
          dirExists, files, outFile,
          pc, images, max_threads, submitted, extracted_text, result, failure, stdout,
          numThreads, idleSem, queue, fut, wpc, wpage,
          results, lock, run, doc1, other>>

inputVars == <<preflightOk, pdfExists, rasterOk, threadsArg, outputArg, writeResp>>
poolVars == <<numThreads, idleSem, queue, fut, wpc, wpage>>
runVars == <<run, doc1, other>>

----------------------------------------------------------------------------
\* Values

NoneVal == [isNone |-> TRUE, val |-> <<>>]
Some(v) == [isNone |-> FALSE, val |-> v]

\* Python truth value of a str-or-None: None and "" are false.
Truthy(x) == ~x.isNone /\ x.val # <<>>

\* What writing the output file can do
WriteResps == {"ok", "openFail", "writeFail"}

\* args.threads when --threads is absent.
NoThreads == -2

Workers == 1..(IF CpuCount > MaxThreads THEN CpuCount ELSE MaxThreads)

\* What happens to a page image in process_page:
\*   "ok"          save, OCR and removal succeed, OCR returns the page's text
\*   "saveFail"    image.save raises (it leaves no file behind)
\*   "ocrFail"     image_to_string raises
\*   "removeFail"  os.remove raises, the file stays
Kinds == {"ok", "saveFail", "ocrFail", "removeFail"}

\* A file name made of the thread's ident alone.
ImagePathByThread(page_num, thread_id) == <<0, thread_id>>

\* os.path.join(self.temp_dir, f"page_{page_num}_thread_{thread_id}.png")
ImagePath(page_num, thread_id) == <<page_num, thread_id>>

\* threading.get_ident() of worker w: distinct for the threads of one pool
Ident(w) == w

Glyphs == <<"A", "B", "C", "D", "E", "F", "G", "H", "I">>

\* pytesseract.image_to_string of page p when it returns: every page has a
\* text of its own.
OcrText(p) == <<Glyphs[((p - 1) % 9) + 1]>>

Digit == <<"0", "1", "2", "3", "4", "5", "6", "7", "8", "9">>

\* str(i) for i >= 0
RECURSIVE Str(_)
Str(i) == IF i < 10 THEN <<Digit[i + 1]>> ELSE Str(i \div 10) \o <<Digit[(i % 10) + 1]>>

\* f"\n\n--- Page {i} ---\n\n"
Header(i) == <<"\n\n--- Page ">> \o Str(i) \o <<" ---\n\n">>

\* self.results as a mapping: the keys, and the value of a key
Keys(d) == {d[k].page : k \in 1..Len(d)}
Lookup(d, p) == (CHOOSE k \in 1..Len(d) : d[k].page = p)

\* self.results[page_num] = page_text
DictSet(d, p, t) ==
  IF p \in Keys(d)
    THEN [d EXCEPT ![Lookup(d, p)] = [page |-> p, text |-> t]]
    ELSE Append(d, [page |-> p, text |-> t])

DictGet(d, p) == d[Lookup(d, p)].text

\* A combining loop over the dict itself (for page, text in results.items()):
\* the sections come in the order the pages were recorded.
RECURSIVE CombineInsertionOrder(_, _, _)
CombineInsertionOrder(d, i, n) ==
  IF i > Len(d) THEN <<>>
  ELSE Header(d[i].page) \o d[i].text \o CombineInsertionOrder(d, i + 1, n)

\* A combining loop that writes the header of every page and takes the empty
\* string for a page that is not in the dict (results.get(i, "")).
RECURSIVE CombineAllHeaders(_, _, _)
CombineAllHeaders(d, i, n) ==
  IF i > n THEN <<>>
  ELSE Header(i) \o (IF i \in Keys(d) THEN DictGet(d, i) ELSE <<>>)
         \o CombineAllHeaders(d, i + 1, n)

\* The loop that combines the results: for i in range(1, len(images) + 1)
RECURSIVE Combine(_, _, _)
Combine(d, i, n) ==
  IF i > n THEN <<>>
  ELSE (IF i \in Keys(d) THEN Header(i) \o DictGet(d, i) ELSE <<>>) \o Combine(d, i + 1, n)

----------------------------------------------------------------------------
\* The state before main() is called

\* The per-run state of extract_text_from_pdf, of the executor and of the
\* PageProcessor, as it is when a run starts.
\* The pages whose task raises at some step
FailedPages == {p \in 1..Len(pages) : pages[p] # "ok"}

\* The other run: not started ("off"), or at one of its steps on the
\* directory; ident is threading.get_ident() of its pool thread, a number of
\* its own process that may equal the ident of a thread of this process.
OtherOff == [pc |-> "off", ident |-> 0]

FreshRun ==
  /\ pc = "start"
  /\ images = 0
  /\ max_threads = threadsArg
  /\ submitted = 0
  /\ extracted_text = <<>>
  /\ result = NoneVal
  /\ failure = "none"
  /\ stdout = NoneVal
  /\ numThreads = 0
  /\ idleSem = 0
  /\ queue = <<>>
  /\ fut = <<>>
  /\ wpc = [w \in Workers |-> "idle"]
  /\ wpage = [w \in Workers |-> 0]
  /\ results = <<>>
  /\ lock = 0

InitRun ==
  /\ preflightOk \in BOOLEAN
  /\ pdfExists \in BOOLEAN
  /\ rasterOk \in BOOLEAN
  /\ threadsArg \in {NoThreads} \cup ((-1)..MaxThreads)
  /\ outputArg \in BOOLEAN
  /\ writeResp = "unasked"
  /\ pages = <<>>
  /\ dirExists \in BOOLEAN
  /\ files = {}
  /\ outFile = NoneVal
  /\ FreshRun
  /\ run = 1
  /\ doc1 = NoneVal

\* No other run of the program uses the working directory.
Init ==
  /\ InitRun
  /\ other = OtherOff

----------------------------------------------------------------------------
\* extract_text_from_pdf

\* return None: from an early return or from the except clause of the function
ReturnNone(why) ==
  /\ result' = NoneVal
  /\ failure' = why
  /\ pc' = "returned"

\* The preflight called with its answer dropped: the run goes on either way.
CheckDependenciesIgnored ==
  /\ pc = "start"
  /\ pc' = "exists"
  /\ UNCHANGED <<inputVars, pages, dirExists, files, outFile, images, max_threads,
                 submitted, extracted_text, result, failure, stdout, poolVars,
                 results, lock, runVars>>

\* if not check_dependencies(): return None
CheckDependencies ==
  /\ pc = "start"
  /\ IF preflightOk
       THEN pc' = "exists" /\ UNCHANGED <<result, failure>>
       ELSE ReturnNone("preflight")
  /\ UNCHANGED <<inputVars, pages, dirExists, files, outFile, images, max_threads,
                 submitted, extracted_text, stdout, poolVars, results, lock, runVars>>

\* if not os.path.exists(pdf_path): return None
CheckPdfExists ==
  /\ pc = "exists"
  /\ IF pdfExists
       THEN pc' = "convert" /\ UNCHANGED <<result, failure>>
       ELSE ReturnNone("input")
  /\ UNCHANGED <<inputVars, pages, dirExists, files, outFile, images, max_threads,
                 submitted, extracted_text, stdout, poolVars, results, lock, runVars>>

\* images = convert_from_path(pdf_path): the first run reads the PDF, a later
\* run reads the same PDF again.
Convert ==
  /\ pc = "convert"
  /\ IF rasterOk
       THEN /\ IF run = 1
                 THEN \E n \in 0..MaxPages : pages' \in [1..n -> Kinds]
                 ELSE pages' = pages
            /\ images' = Len(pages')
            /\ pc' = "mkdir"
            /\ UNCHANGED <<result, failure>>
       ELSE /\ ReturnNone("raster")
            /\ UNCHANGED <<pages, images>>
  /\ UNCHANGED <<inputVars, dirExists, files, outFile, max_threads,
                 submitted, extracted_text, stdout, poolVars, results, lock, runVars>>

\* os.makedirs(temp_dir) without the test: FileExistsError when the
\* directory is there, and the except clause of the function returns None.
MakeTempDirNoCheck ==
  /\ pc = "mkdir"
  /\ IF dirExists
       THEN ReturnNone("mkdir") /\ UNCHANGED <<dirExists, results, lock>>
       ELSE /\ dirExists' = TRUE
            /\ results' = <<>>
            /\ lock' = 0
            /\ pc' = "threads"
            /\ UNCHANGED <<result, failure>>
  /\ UNCHANGED <<inputVars, pages, files, outFile, images, max_threads, submitted,
                 extracted_text, stdout, poolVars, runVars>>

\* if not os.path.exists(temp_dir): os.makedirs(temp_dir)
\* processor = PageProcessor(temp_dir)
MakeTempDir ==
  /\ pc = "mkdir"
  /\ dirExists' = TRUE
  /\ results' = <<>>
  /\ lock' = 0
  /\ pc' = "threads"
  /\ UNCHANGED <<inputVars, pages, files, outFile, images, max_threads, submitted,
                 extracted_text, result, failure, stdout, poolVars, runVars>>

\* if max_threads is None: max_threads = multiprocessing.cpu_count()
DefaultThreads ==
  /\ pc = "threads"
  /\ max_threads' = IF max_threads = NoThreads THEN CpuCount ELSE max_threads
  /\ pc' = "pool"
  /\ UNCHANGED <<inputVars, pages, dirExists, files, outFile, images, submitted,
                 extracted_text, result, failure, stdout, poolVars, results, lock, runVars>>

\* A pool created whatever max_workers is.
CreatePoolNoValidation ==
  /\ pc = "pool"
  /\ pc' = "submit"
  /\ UNCHANGED <<inputVars, pages, dirExists, files, outFile, images, max_threads,
                 submitted, extracted_text, result, failure, stdout, poolVars,
                 results, lock, runVars>>

\* ThreadPoolExecutor(max_workers=max_threads) raises ValueError when
\* max_workers <= 0; the except clause of the function returns None.
CreatePool ==
  /\ pc = "pool"
  /\ IF max_threads >= 1
       THEN pc' = "submit" /\ UNCHANGED <<result, failure>>
       ELSE ReturnNone("pool")
  /\ UNCHANGED <<inputVars, pages, dirExists, files, outFile, images, max_threads,
                 submitted, extracted_text, stdout, poolVars, results, lock, runVars>>

\* A pool that spawns a thread for every work item, whatever max_workers is.
AdjustThreadCountNoLimit(n, max) == IF n < Cardinality(Workers) THEN n + 1 ELSE n

\* ThreadPoolExecutor(max_workers=max_threads): the number of threads after
\* a submit that found no idle thread, n being the number before.
AdjustThreadCount(n, max) == IF n < max THEN n + 1 ELSE n

\* Every work item carrying the last page (a closure over the loop variable
\* that is evaluated late).
SubmitLastPage ==
  /\ pc = "submit"
  /\ submitted < images
  /\ submitted' = submitted + 1
  /\ queue' = Append(queue, images)
  /\ fut' = Append(fut, "pending")
  /\ IF idleSem > 0
       THEN idleSem' = idleSem - 1 /\ UNCHANGED numThreads
       ELSE /\ numThreads' = AdjustThreadCount(numThreads, max_threads)
            /\ UNCHANGED idleSem
  /\ UNCHANGED <<inputVars, pages, dirExists, files, outFile, pc, images, max_threads,
                 extracted_text, result, failure, stdout, wpc, wpage, results, lock, runVars>>

\* executor.submit(processor.process_page, (i + 1, image)): the work item is
\* queued; a thread is spawned unless an idle one is signalled or max_workers
\* threads exist.
Submit ==
  /\ pc = "submit"
  /\ submitted < images
  /\ submitted' = submitted + 1
  /\ queue' = Append(queue, submitted + 1)
  /\ fut' = Append(fut, "pending")
  /\ IF idleSem > 0
       THEN idleSem' = idleSem - 1 /\ UNCHANGED numThreads
       ELSE /\ numThreads' = AdjustThreadCount(numThreads, max_threads)
            /\ UNCHANGED idleSem
  /\ UNCHANGED <<inputVars, pages, dirExists, files, outFile, pc, images, max_threads,
                 extracted_text, result, failure, stdout, wpc, wpage, results, lock, runVars>>

\* The futures' states
AllDone == \A p \in 1..Len(fut) : fut[p] = "returned"

\* The combining loop entered as soon as the pages are submitted, without
\* waiting for the futures (no as_completed loop, shutdown(wait=False)).
WaitAllNoJoin ==
  /\ pc = "submit"
  /\ submitted = images
  /\ pc' = "combine"
  /\ UNCHANGED <<inputVars, pages, dirExists, files, outFile, images, max_threads,
                 submitted, extracted_text, result, failure, stdout, poolVars,
                 results, lock, runVars>>

\* for future in as_completed(future_to_page): future.result(), then the exit
\* of the with block (executor.shutdown(wait=True)): every future is done and
\* every thread has ended.
WaitAll ==
  /\ pc = "submit"
  /\ submitted = images
  /\ AllDone
  /\ pc' = "combine"
  /\ UNCHANGED <<inputVars, pages, dirExists, files, outFile, images, max_threads,
                 submitted, extracted_text, result, failure, stdout, poolVars,
                 results, lock, runVars>>

\* extracted_text = "" ; for i in range(1, len(images) + 1): ...
Reassemble ==
  /\ pc = "combine"
  /\ extracted_text' = Combine(results, 1, images)
  /\ pc' = "rmdir"
  /\ UNCHANGED <<inputVars, pages, dirExists, files, outFile, images, max_threads,
                 submitted, result, failure, stdout, poolVars, results, lock, runVars>>

\* The directory removed with whatever it holds (shutil.rmtree).
RemoveTempDirForce ==
  /\ pc = "rmdir"
  /\ IF dirExists
       THEN dirExists' = FALSE /\ files' = {} /\ pc' = "write" /\ UNCHANGED <<result, failure>>
       ELSE ReturnNone("rmdir") /\ UNCHANGED <<dirExists, files>>
  /\ UNCHANGED <<inputVars, pages, outFile, images, max_threads,
                 submitted, extracted_text, stdout, poolVars, results, lock, runVars>>


\* os.rmdir(temp_dir): raises OSError when the directory is missing or holds
\* a file; the except clause of the function returns None.
RemoveTempDir ==
  /\ pc = "rmdir"
  /\ IF dirExists /\ files = {}
       THEN dirExists' = FALSE /\ pc' = "write" /\ UNCHANGED <<result, failure>>
       ELSE ReturnNone("rmdir") /\ UNCHANGED dirExists
  /\ UNCHANGED <<inputVars, pages, files, outFile, images, max_threads,
                 submitted, extracted_text, stdout, poolVars, results, lock, runVars>>

\* if output_file: with open(output_file, 'w', encoding='utf-8') as f:
\*     f.write(extracted_text)
\* return extracted_text
\* open() may raise (the file is untouched) and f.write may raise (the file
\* was truncated by open); the except clause of the function returns None.
\* The file system answers a second run as it answered the first.
WriteOutput ==
  /\ pc = "write"
  /\ IF ~outputArg
       THEN /\ result' = Some(extracted_text)
            /\ UNCHANGED <<outFile, failure, writeResp>>
       ELSE \E resp \in (IF writeResp = "unasked" THEN WriteResps ELSE {writeResp}) :
              /\ writeResp' = resp
              /\ outFile' = CASE resp = "ok" -> Some(extracted_text)
                              [] resp = "openFail" -> outFile
                              [] resp = "writeFail" -> Some(<<>>)
              /\ result' = IF resp = "ok" THEN Some(extracted_text) ELSE NoneVal
              /\ failure' = IF resp = "ok" THEN failure ELSE "write"
  /\ pc' = "returned"
  /\ UNCHANGED <<preflightOk, pdfExists, rasterOk, threadsArg, outputArg,
                 pages, dirExists, files, images, max_threads,
                 submitted, extracted_text, stdout, poolVars, results, lock, runVars>>

----------------------------------------------------------------------------
\* main

\* if extracted_text and not args.output: print(extracted_text)
MainPrint ==
  /\ pc = "returned"
  /\ stdout' = IF Truthy(result) /\ ~outputArg THEN Some(result.val) ELSE NoneVal
  /\ pc' = "exit"
  /\ UNCHANGED <<inputVars, pages, dirExists, files, outFile, images, max_threads,
                 submitted, extracted_text, result, failure, poolVars, results, lock,
                 runVars>>

\* The program is started again with the same command line.  The threads of
\* the ended process are gone and the new process gives its threads idents of
\* its own: a file left in the directory keeps its page number and is given
\* the ident 0, which no thread of a pool has.
Rerun ==
  /\ pc = "exit"
  /\ run = 1
  /\ run' = run + 1
  /\ doc1' = IF run = 1 THEN result ELSE doc1
  /\ pc' = "start"
  /\ images' = 0
  /\ max_threads' = threadsArg
  /\ submitted' = 0
  /\ extracted_text' = <<>>
  /\ result' = NoneVal
  /\ failure' = "none"
  /\ stdout' = NoneVal
  /\ numThreads' = 0
  /\ idleSem' = 0
  /\ queue' = <<>>
  /\ fut' = <<>>
  /\ wpc' = [w \in Workers |-> "idle"]
  /\ wpage' = [w \in Workers |-> 0]
  /\ results' = <<>>
  /\ lock' = 0
  /\ files' = {ImagePath(f[1], 0) : f \in files}
  /\ UNCHANGED <<inputVars, pages, dirExists, outFile, other>>

----------------------------------------------------------------------------
\* PageProcessor.process_page, run by worker thread w of the executor

\* process_page returns (normally or from its except clause): the future is
\* done and the worker looks for its next work item, signalling that it is
\* idle when the queue is empty.
Return(w) ==
  /\ fut' = [fut EXCEPT ![wpage[w]] = "returned"]
  /\ wpc' = [wpc EXCEPT ![w] = "idle"]
  /\ wpage' = [wpage EXCEPT ![w] = 0]
  /\ idleSem' = IF queue = <<>> THEN idleSem + 1 ELSE idleSem
  /\ UNCHANGED <<numThreads, queue>>

\* Next step of process_page in worker w
Goto(w, where) ==
  /\ wpc' = [wpc EXCEPT ![w] = where]
  /\ UNCHANGED <<numThreads, idleSem, queue, fut, wpage>>

\* The worker takes the oldest work item and calls process_page.
Take(w) ==
  /\ w <= numThreads
  /\ wpc[w] = "idle"
  /\ queue # <<>>
  /\ wpage' = [wpage EXCEPT ![w] = Head(queue)]
  /\ queue' = Tail(queue)
  /\ fut' = [fut EXCEPT ![Head(queue)] = "running"]
  /\ wpc' = [wpc EXCEPT ![w] = "save"]
  /\ UNCHANGED <<numThreads, idleSem>>
  /\ UNCHANGED <<inputVars, pages, dirExists, files, outFile, pc, images, max_threads,
                 submitted, extracted_text, result, failure, stdout, results, lock, runVars>>

\* image.save(image_path, 'PNG')
Save(w) ==
  /\ wpc[w] = "save"
  /\ LET path == ImagePath(wpage[w], Ident(w))
         kind == pages[wpage[w]]
     IN  IF ~dirExists \/ kind = "saveFail"
           THEN Return(w) /\ UNCHANGED files
           ELSE files' = files \cup {path} /\ Goto(w, "ocr")
  /\ UNCHANGED <<inputVars, pages, dirExists, outFile, pc, images, max_threads,
                 submitted, extracted_text, result, failure, stdout, results, lock, runVars>>

\* An OCR error that shuts the pool down with the pending work cancelled
\* (executor.shutdown(cancel_futures=True) in the handler).
OcrCancelsSiblings(w) ==
  /\ wpc[w] = "ocr"
  /\ LET path == ImagePath(wpage[w], Ident(w))
         kind == pages[wpage[w]]
     IN  IF path \notin files \/ kind = "ocrFail"
           THEN /\ fut' = [p \in 1..Len(fut) |->
                             IF p = wpage[w] \/ fut[p] = "pending" THEN "returned" ELSE fut[p]]
                /\ queue' = <<>>
                /\ wpc' = [wpc EXCEPT ![w] = "idle"]
                /\ wpage' = [wpage EXCEPT ![w] = 0]
                /\ UNCHANGED <<numThreads, idleSem>>
           ELSE Goto(w, "remove")
  /\ UNCHANGED <<inputVars, pages, dirExists, files, outFile, pc, images, max_threads,
                 submitted, extracted_text, result, failure, stdout, results, lock, runVars>>

\* page_text = pytesseract.image_to_string(Image.open(image_path))
Ocr(w) ==
  /\ wpc[w] = "ocr"
  /\ LET path == ImagePath(wpage[w], Ident(w))
         kind == pages[wpage[w]]
     IN  IF path \notin files \/ kind = "ocrFail"
           THEN Return(w)
           ELSE Goto(w, "remove")
  /\ UNCHANGED <<inputVars, pages, dirExists, files, outFile, pc, images, max_threads,
                 submitted, extracted_text, result, failure, stdout, results, lock, runVars>>

\* The page's file left in the directory: no os.remove.
RemoveKeepsFile(w) ==
  /\ wpc[w] = "remove"
  /\ LET path == ImagePath(wpage[w], Ident(w))
         kind == pages[wpage[w]]
     IN  IF path \notin files \/ kind = "removeFail"
           THEN Return(w) /\ UNCHANGED files
           ELSE UNCHANGED files /\ Goto(w, "lock")
  /\ UNCHANGED <<inputVars, pages, dirExists, outFile, pc, images, max_threads,
                 submitted, extracted_text, result, failure, stdout, results, lock, runVars>>

\* os.remove(image_path)
Remove(w) ==
  /\ wpc[w] = "remove"
  /\ LET path == ImagePath(wpage[w], Ident(w))
         kind == pages[wpage[w]]
     IN  IF path \notin files \/ kind = "removeFail"
           THEN Return(w) /\ UNCHANGED files
           ELSE files' = files \ {path} /\ Goto(w, "lock")
  /\ UNCHANGED <<inputVars, pages, dirExists, outFile, pc, images, max_threads,
                 submitted, extracted_text, result, failure, stdout, results, lock, runVars>>

\* The locked region entered without waiting for the lock.
AcquireNoWait(w) ==
  /\ wpc[w] = "lock"
  /\ lock' = w
  /\ Goto(w, "record")
  /\ UNCHANGED <<inputVars, pages, dirExists, files, outFile, pc, images, max_threads,
                 submitted, extracted_text, result, failure, stdout, results, runVars>>

\* with self.lock: (entry)
Acquire(w) ==
  /\ wpc[w] = "lock"
  /\ lock = 0
  /\ lock' = w
  /\ Goto(w, "record")
  /\ UNCHANGED <<inputVars, pages, dirExists, files, outFile, pc, images, max_threads,
                 submitted, extracted_text, result, failure, stdout, results, runVars>>

\* The result stored under the thread's ident instead of the page number.
RecordByThread(w) ==
  /\ wpc[w] = "record"
  /\ results' = DictSet(results, Ident(w), OcrText(wpage[w]))
  /\ lock' = 0
  /\ Return(w)
  /\ UNCHANGED <<inputVars, pages, dirExists, files, outFile, pc, images, max_threads,
                 submitted, extracted_text, result, failure, stdout, runVars>>

\* The result stored and process_page returning with the lock still held.
RecordKeepsLock(w) ==
  /\ wpc[w] = "record"
  /\ results' = DictSet(results, wpage[w], OcrText(wpage[w]))
  /\ lock' = lock
  /\ Return(w)
  /\ UNCHANGED <<inputVars, pages, dirExists, files, outFile, pc, images, max_threads,
                 submitted, extracted_text, result, failure, stdout, runVars>>

\* self.results[page_num] = page_text; print(...); the lock is released at
\* the end of the with block and process_page returns.
Record(w) ==
  /\ wpc[w] = "record"
  /\ results' = DictSet(results, wpage[w], OcrText(wpage[w]))
  /\ lock' = 0
  /\ Return(w)
  /\ UNCHANGED <<inputVars, pages, dirExists, files, outFile, pc, images, max_threads,
                 submitted, extracted_text, result, failure, stdout, runVars>>

----------------------------------------------------------------------------
Next ==
  \/ CheckDependencies
  \/ CheckPdfExists
  \/ Convert
  \/ MakeTempDir
  \/ DefaultThreads
  \/ CreatePool
  \/ Submit
  \/ WaitAll
  \/ Reassemble
  \/ RemoveTempDir
  \/ WriteOutput
  \/ MainPrint
  \/ \E w \in Workers : Take(w)
  \/ \E w \in Workers : Save(w)
  \/ \E w \in Workers : Ocr(w)
  \/ \E w \in Workers : Remove(w)
  \/ \E w \in Workers : Acquire(w)
  \/ \E w \in Workers : Record(w)

Spec == Init /\ [][Next]_vars

\* The program run twice in a row
\* The main thread: main and extract_text_from_pdf
Coordinator ==
  \/ CheckDependencies
  \/ CheckPdfExists
  \/ Convert
  \/ MakeTempDir
  \/ DefaultThreads
  \/ CreatePool
  \/ Submit
  \/ WaitAll
  \/ Reassemble
  \/ RemoveTempDir
  \/ WriteOutput
  \/ MainPrint

\* Pool thread w: the work loop and process_page
Worker(w) ==
  \/ Take(w)
  \/ Save(w)
  \/ Ocr(w)
  \/ Remove(w)
  \/ Acquire(w)
  \/ Record(w)

\* One run with every thread scheduled again and again while it can take a
\* step, every disk and OCR call returning.
FairSpec ==
  /\ Init
  /\ [][Next]_vars
  /\ WF_vars(Coordinator)
  /\ \A w \in Workers : WF_vars(Worker(w))

----------------------------------------------------------------------------
\* A second run of the program, started in the same working directory while
\* this run is under way.  It is the same code in another process; what this
\* run can see of it are its steps on temp_ocr_images: the creation of the
\* directory, the save and the removal of the file of its page, the removal
\* of the directory.  It has one pool thread and at most one page.

\* What the other run leaves untouched
ownVars == <<inputVars, pages, outFile, pc, images, max_threads, submitted,
             extracted_text, result, failure, stdout, poolVars, results, lock, run, doc1>>

\* The transient file of the other run's page
OtherPath == ImagePath(1, other.ident)

\* The other run goes on to its pool: to the task of its page, or to the
\* removal of the directory when its PDF has no page.
OtherPool == {[other EXCEPT !.pc = "save"], [other EXCEPT !.pc = "rmdir"]}

\* The other run: if not os.path.exists(temp_dir): os.makedirs(temp_dir)
OtherMakeTempDir ==
  /\ other.pc = "start"
  /\ dirExists' = TRUE
  /\ other' \in OtherPool
  /\ UNCHANGED <<ownVars, files>>

\* Both runs find no directory before either creates it: os.makedirs of the
\* second to call raises FileExistsError and that run returns None from the
\* except clause of the function.
MakeTempDirRace ==
  /\ pc = "mkdir"
  /\ other.pc = "start"
  /\ ~dirExists
  /\ dirExists' = TRUE
  /\ \/ /\ other' = [other EXCEPT !.pc = "done"]
        /\ results' = <<>>
        /\ lock' = 0
        /\ pc' = "threads"
        /\ UNCHANGED <<result, failure>>
     \/ /\ other' \in OtherPool
        /\ ReturnNone("mkdir")
        /\ UNCHANGED <<results, lock>>
  /\ UNCHANGED <<inputVars, pages, files, outFile, images, max_threads, submitted,
                 extracted_text, stdout, poolVars, run, doc1>>

\* The other run: image.save(image_path, 'PNG'); a file at that path is
\* overwritten; without the directory the call raises and the task returns.
OtherSave ==
  /\ other.pc = "save"
  /\ IF dirExists
       THEN files' = files \cup {OtherPath} /\ other' = [other EXCEPT !.pc = "remove"]
       ELSE UNCHANGED files /\ other' = [other EXCEPT !.pc = "rmdir"]
  /\ UNCHANGED <<ownVars, dirExists>>

\* The other run: image_to_string and os.remove(image_path); either raises
\* when the file is gone and the task returns.
OtherRemove ==
  /\ other.pc = "remove"
  /\ files' = files \ {OtherPath}
  /\ other' = [other EXCEPT !.pc = "rmdir"]
  /\ UNCHANGED <<ownVars, dirExists>>

\* The other run: os.rmdir(temp_dir), which raises unless the directory is
\* there and empty.
OtherRemoveTempDir ==
  /\ other.pc = "rmdir"
  /\ dirExists' = IF files = {} THEN FALSE ELSE dirExists
  /\ other' = [other EXCEPT !.pc = "done"]
  /\ UNCHANGED <<ownVars, files>>

\* The other run is about to start; its thread has an ident of its own or the
\* ident of this run's first pool thread.
InitShared ==
  /\ InitRun
  /\ other \in {[pc |-> "start", ident |-> i] : i \in {0, Ident(1)}}

\* This run is given a PDF whose pages all go through save, OCR and remove
\* when it runs alone.
NextShared ==
  \/ Next /\ FailedPages' = {}
  \/ OtherMakeTempDir
  \/ MakeTempDirRace
  \/ OtherSave
  \/ OtherRemove
  \/ OtherRemoveTempDir

SpecShared == InitShared /\ [][NextShared]_vars

----------------------------------------------------------------------------
NextTwice == Next \/ Rerun

SpecTwice == Init /\ [][NextTwice]_vars

----------------------------------------------------------------------------
\* Vocabulary of the properties

\* extract_text_from_pdf has returned
Done == pc \in {"returned", "exit"}

\* The run went through the preflight, the path test, the conversion and the
\* creation of the pool: its pages were handed to the pool.
ProcessedPages ==
  Done /\ preflightOk /\ pdfExists /\ rasterOk /\ max_threads >= 1

\* The futures of the tasks that a worker is executing
Running == {p \in 1..Len(fut) : fut[p] = "running"}

\* The text expected of pages i..n: every page's header followed by its text,
\* the text of a page of blank being empty
RECURSIVE Sections(_, _, _)
Sections(i, n, blank) ==
  IF i > n THEN <<>>
  ELSE Header(i) \o (IF i \in blank THEN <<>> ELSE OcrText(i)) \o Sections(i + 1, n, blank)

\* Number of entries of the dict d whose key is p
Entries(d, p) == Cardinality({k \in 1..Len(d) : d[k].page = p})

----------------------------------------------------------------------------
\* C1: when every page task succeeds, the run does not fail on the removal of
\* the directory and the Document it returns is, for the pages 1..N in
\* ascending order, the page's header followed by the page's own OCR text,
\* whatever the order in which the tasks completed.
C1_DocumentInPageOrder ==
  (Done /\ FailedPages = {})
    => /\ failure # "rmdir"
       /\ failure = "none" => result = Some(Sections(1, images, {}))

\* A Document of several pages was returned although the first page recorded
\* was not page 1.
C1_Witness ==
  /\ pc = "returned"
  /\ FailedPages = {}
  /\ images >= 2
  /\ ~result.isNone
  /\ Len(results) = images
  /\ results[1].page # 1

\* C2: when exactly one page fails and nothing else goes wrong, the run
\* returns a Document of N sections in order, the failed page's section being
\* its header with an empty body.
C2_OneFailedPageLeavesBlankSection ==
  (ProcessedPages /\ Cardinality(FailedPages) = 1 /\ failure # "write")
    => result = Some(Sections(1, images, FailedPages))

\* C3: when process_page has returned for a page, the results map holds
\* exactly one entry for it: the OCR text of a page that succeeded, the empty
\* string of a page that failed.
C3_EveryReturnedPageRecorded ==
  \A p \in 1..Len(fut) :
    fut[p] = "returned"
      => /\ Entries(results, p) = 1
         /\ DictGet(results, p) = (IF pages[p] = "ok" THEN OcrText(p) ELSE <<>>)

\* C4: after a run that processed its pages, the directory temp_ocr_images
\* is absent and holds no file.
C4_NoTransientArtifactAfterRun ==
  ProcessedPages => (~dirExists /\ files = {})

\* C5: at most max_workers page tasks execute at the same time, and a task
\* that is neither executing nor done waits in the queue.
C5_ConcurrencyBound ==
  pc = "submit"
    => /\ Cardinality(Running) <= max_threads
       /\ Cardinality({w \in Workers : wpc[w] # "idle"}) <= max_threads
       /\ \A p \in 1..Len(fut) :
            fut[p] = "pending" <=> (\E k \in 1..Len(queue) : queue[k] = p)

\* More pages than threads: every thread of a pool of two or more executes a
\* task while a page waits.
C5_Witness ==
  /\ pc = "submit"
  /\ max_threads >= 2
  /\ images > max_threads
  /\ Cardinality(Running) = max_threads
  /\ queue # <<>>

\* C6: a run that fails at the run level (preflight false, PDF missing,
\* conversion raising, pool creation raising) returns None and leaves the
\* output file as it was, that is absent.
C6_RunLevelFailureYieldsNothing ==
  (Done /\ (~preflightOk \/ ~pdfExists \/ ~rasterOk \/ max_threads <= 0))
    => (result = NoneVal /\ outFile = NoneVal)

\* The creation of the pool raised in a run asked to write an output file.
C6_Witness ==
  /\ pc = "returned"
  /\ preflightOk /\ pdfExists /\ rasterOk
  /\ threadsArg = 0
  /\ outputArg
  /\ result = NoneVal
  /\ dirExists

\* C7: a PDF of no page, converted in a run with a valid number of threads
\* and an output file that can be written: no task is submitted, no thread
\* is spawned, the run returns the empty text (not None) and the directory
\* is removed.
C7_EmptyPdf ==
  (ProcessedPages /\ images = 0 /\ writeResp \in {"unasked", "ok"})
    => /\ result = Some(<<>>)
       /\ ~dirExists
       /\ fut = <<>>
       /\ numThreads = 0

\* A run on a PDF of no page has returned the empty text and the directory
\* is gone.
C7_Witness ==
  /\ ProcessedPages
  /\ images = 0
  /\ result = Some(<<>>)
  /\ ~dirExists

\* C8: the second of two runs in a row on the same input returns what the
\* first returned.
C8_SecondRunSameDocument ==
  (run = 2 /\ Done) => result = doc1

\* The second run returned a Document of several pages, recorded in another
\* order than the page order.
C8_Witness ==
  /\ run = 2
  /\ Done
  /\ ~result.isNone
  /\ images >= 2
  /\ results # <<>>
  /\ results[1].page # 1

\* C9: when main ends, a Document returned without --output was printed; a
\* Document returned with --output is in the output file and was not
\* printed; and when None was returned nothing was printed and no file was
\* written.
C9_CliOutput ==
  pc = "exit"
    => /\ (~result.isNone /\ ~outputArg) => stdout = Some(result.val)
       /\ (~result.isNone /\ outputArg) => (outFile = Some(result.val) /\ stdout = NoneVal)
       /\ result.isNone => (stdout = NoneVal /\ outFile = NoneVal)

\* C10: when process_page has returned for a page, the directory holds no
\* file of that page.
C10_NoFileAfterProcessPage ==
  \A p \in 1..Len(fut) :
    fut[p] = "returned" => ~(\E f \in files : f[1] = p)

\* The combining loop has run (the results map is no longer written)
Reassembled == pc \in {"rmdir", "write"}

\* The sections of the pages of i..n that are in present, in ascending order
RECURSIVE SectionsOf(_, _, _)
SectionsOf(i, n, present) ==
  IF i > n THEN <<>>
  ELSE (IF i \in present THEN Header(i) \o OcrText(i) ELSE <<>>)
         \o SectionsOf(i + 1, n, present)

\* Number of page headers in the text t
Headers(t) == Cardinality({k \in 1..Len(t) : t[k] = Header(1)[1]})

NoTaskLeft ==
  /\ submitted = images
  /\ Len(fut) = images
  /\ AllDone
  /\ queue = <<>>
  /\ \A w \in Workers : wpc[w] = "idle" /\ wpage[w] = 0
  /\ lock = 0

\* The coordinator is past the with block of the executor.
Joined ==
  pc \in {"combine", "rmdir", "write"} \/ (Done /\ failure \in {"none", "rmdir", "write"})

\* C12: from the moment the coordinator is about to combine the results
\* until it has returned, that is while it reads the map and removes the
\* directory, every submitted task is done: none is queued, none executes.
C12_CombineAndRmdirAfterJoin ==
  Joined => NoTaskLeft

\* The coordinator removes the directory after the tasks of several pages,
\* run by two threads, have all returned.
C12_Witness ==
  /\ pc = "rmdir"
  /\ images >= 2
  /\ numThreads >= 2
  /\ Len(results) >= 2

\* C13: whatever happens to the other pages, a page whose own steps succeed
\* is recorded once, with its own OCR text, when its task has returned, and
\* the coordinator gets past the pool only when every page whose own steps
\* succeed has run to completion and is recorded.
C13_SiblingsUnaffected ==
  /\ \A j \in 1..Len(fut) :
       (fut[j] = "returned" /\ pages[j] = "ok")
         => (Entries(results, j) = 1 /\ DictGet(results, j) = OcrText(j))
  /\ Joined => \A j \in (1..images) \ FailedPages :
                 fut[j] = "returned" /\ j \in Keys(results)

\* A run is past the pool with a failed page and a later page, submitted
\* after it, recorded.
C13_Witness ==
  /\ Joined
  /\ \E k, j \in 1..images : k < j /\ k \in FailedPages /\ j \in Keys(results)
  /\ images >= 3

\* The workers inside the with self.lock block
InLock == {w \in Workers : wpc[w] = "record"}

\* The workers executing process_page
Busy == {w \in Workers : wpc[w] # "idle"}

LockDiscipline ==
  /\ Cardinality(InLock) <= 1
  /\ \A w \in Workers : (lock = w) <=> (w \in InLock)
  /\ \A w \in Workers : wpc[w] \in {"save", "ocr", "remove"} => lock # w

LockedInsert ==
  /\ results' # results
       => \E w \in InLock : lock = w /\ lock' = 0 /\ wpc'[w] = "idle"
  /\ files' # files
       => \E w \in Workers : /\ wpc[w] \in {"save", "remove"}
                             /\ lock # w
                             /\ wpc'[w] # wpc[w]

\* C14: at most one worker is inside the locked region, the worker inside
\* it is the holder of the lock, a worker at its save, OCR or remove step
\* does not hold the lock; every step that changes the results map is taken
\* by the holder of the lock, and every step that changes the files is taken
\* by a worker that does not hold it.
C14_LockDiscipline ==
  [](LockDiscipline) /\ [][LockedInsert]_vars

\* Two workers are in their OCR step at the same instant.
C14_Witness ==
  \E w1, w2 \in Workers : w1 # w2 /\ wpc[w1] = "ocr" /\ wpc[w2] = "ocr"

\* The transient file of worker w's current task
PathOf(w) == ImagePath(wpage[w], Ident(w))

\* C15: the tasks in flight have pairwise different paths; the path of a
\* task about to save is the path of no existing file (so it overwrites no
\* file of another task, past or present); the file of a task past its save
\* exists until the task itself removes it; and every file in the directory
\* is the file of a task in flight or the leftover of a returned task of
\* that page.
C15_DistinctTransientPaths ==
  /\ \A w1, w2 \in Busy : w1 # w2 => PathOf(w1) # PathOf(w2)
  /\ \A w \in Busy : wpc[w] = "save" => PathOf(w) \notin files
  /\ \A w \in Busy : wpc[w] \in {"ocr", "remove"} => PathOf(w) \in files
  /\ \A f \in files :
       \/ \E w \in Busy : wpc[w] \in {"ocr", "remove"} /\ f = PathOf(w)
       \/ (f[1] \in 1..Len(fut) /\ fut[f[1]] = "returned"
             /\ pages[f[1]] \in {"ocrFail", "removeFail"})

\* A worker thread that left the file of an earlier page behind has saved
\* the file of a later page, while another worker has a file of its own.
C15_Witness ==
  \E w \in Busy :
    /\ wpc[w] = "ocr"
    /\ \E f \in files : f[2] = Ident(w) /\ f[1] # wpage[w]
    /\ \E v \in Busy : v # w /\ wpc[v] \in {"ocr", "remove"}

\* Number of places of the queue holding page p
Queued(p) == Cardinality({k \in 1..Len(queue) : queue[k] = p})

\* Number of workers executing the task of page p
Executing(p) == Cardinality({w \in Workers : wpage[w] = p})

OneTaskPerPage ==
  /\ Len(fut) = submitted
  /\ submitted <= images
  /\ \A p \in 1..images :
       /\ Queued(p) + Executing(p) <= 1
       /\ Queued(p) = (IF p <= submitted /\ fut[p] = "pending" THEN 1 ELSE 0)
       /\ Executing(p) = (IF p <= submitted /\ fut[p] = "running" THEN 1 ELSE 0)
       /\ Entries(results, p) <= 1
       /\ p \in Keys(results) => fut[p] \in {"running", "returned"}
  /\ \A k \in 1..Len(queue) : queue[k] \in 1..images
  /\ \A w \in Busy : wpage[w] \in 1..images
  /\ Keys(results) \subseteq 1..images

EntriesKept ==
  \/ results' = results
  \/ \E w \in InLock :
       /\ wpage[w] \notin Keys(results)
       /\ results' = Append(results, [page |-> wpage[w], text |-> OcrText(wpage[w])])

\* C16: every submitted page is the page of exactly one task (queued once,
\* or executed by one worker, or returned), the map has at most one entry
\* per page and no key outside 1..N; a step that changes the map adds the
\* entry of a page that had none, leaving every other entry as it was.
C16_OneWriterPerKey ==
  [](OneTaskPerPage) /\ [][EntriesKept]_vars

\* Two workers execute the tasks of two different pages while the map holds
\* the entry of a third.
C16_Witness ==
  /\ \E w1, w2 \in Busy : w1 # w2 /\ wpage[w1] # wpage[w2]
  /\ results # <<>>
  /\ submitted = images

\* The pages whose task raises after image.save has written the file
FailedAfterSave == {p \in 1..Len(pages) : pages[p] \in {"ocrFail", "removeFail"}}

\* C19: once the directory was removed, and so whenever the run returns a
\* Document, the directory held no file and no page failed after its image
\* was saved; and a finished run with a page that failed after its image was
\* saved has failed on the removal of the directory: it returns None, no
\* output file is written, the directory and the file of that page remain.
C19_DocumentImpliesCleanDirectory ==
  /\ (pc = "write" \/ (Done /\ ~result.isNone))
       => (files = {} /\ ~dirExists /\ FailedAfterSave = {})
  /\ (ProcessedPages /\ FailedAfterSave # {})
       => /\ result = NoneVal
          /\ failure = "rmdir"
          /\ outFile = NoneVal
          /\ dirExists
          /\ \A p \in FailedAfterSave : \E f \in files : f[1] = p

\* A run asked to write an output file returned None on the removal of the
\* directory: one page failed on os.remove, another page was recorded.
C19_Witness ==
  /\ ProcessedPages
  /\ outputArg
  /\ failure = "rmdir"
  /\ \E p \in 1..images : pages[p] = "removeFail"
  /\ results # <<>>

\* --threads given as an integer <= 0
ExplicitBadThreads == threadsArg # NoThreads /\ threadsArg <= 0

\* C20: in a run with --threads <= 0 no task is ever submitted or executed
\* and no thread is spawned; once the run has passed the preflight, the
\* path check and the conversion, it returns None from the creation of the
\* pool, with no output file written and the directory in place.
C20_NonPositiveThreads ==
  ExplicitBadThreads
    => /\ fut = <<>> /\ queue = <<>> /\ Busy = {} /\ numThreads = 0 /\ results = <<>>
       /\ (Done /\ preflightOk /\ pdfExists /\ rasterOk)
            => /\ result = NoneVal
               /\ failure = "pool"
               /\ outFile = NoneVal
               /\ dirExists

\* A run with a negative --threads on a PDF with pages, asked to write an
\* output file, has returned.
C20_Witness ==
  /\ pc = "returned"
  /\ threadsArg < 0
  /\ ExplicitBadThreads
  /\ images >= 1
  /\ outputArg
  /\ failure = "pool"

\* The run returned with every task done: all the pages were submitted
\* when the pool was created, and every future is in its last state.
ReturnedAfterTasks ==
  Done => /\ AllDone /\ queue = <<>> /\ Busy = {} /\ Len(fut) = submitted
          /\ failure \in {"none", "rmdir", "write"} => submitted = images

\* A future goes from pending to running to returned and never back; it is
\* never dropped.
FutureSteps ==
  /\ Len(fut') >= Len(fut)
  /\ \A p \in 1..Len(fut) :
       \/ fut'[p] = fut[p]
       \/ fut[p] = "pending" /\ fut'[p] = "running"
       \/ fut[p] = "running" /\ fut'[p] = "returned"

\* C17: under fair scheduling the run returns and the program ends; when
\* the run has returned every page was submitted (if the pool was created)
\* and every submitted task has returned, none being queued or executing;
\* and a task only goes from pending to running to returned.  So every
\* submitted task starts and completes and the wait for the tasks ends.
C17_EveryTaskCompletesAndRunReturns ==
  /\ <>(pc = "exit")
  /\ []ReturnedAfterTasks
  /\ [][FutureSteps]_vars

\* A run of more pages than threads, one of them failing, has ended after
\* two threads shared the pages.
C17_Witness ==
  /\ pc = "exit"
  /\ images >= 3
  /\ numThreads = 2
  /\ FailedPages # {}
  /\ Len(results) >= 2

\* A finished run that met no failure of its own: the preflight, the path
\* check and the conversion passed, --threads is valid, every page converts,
\* and the output file, if any, could be written.
CleanRun ==
  /\ Done
  /\ preflightOk /\ pdfExists /\ rasterOk
  /\ ~ExplicitBadThreads
  /\ FailedPages = {}
  /\ failure # "write"

SharedOutcome ==
  CleanRun
    => \/ result = Some(Sections(1, images, {}))
       \/ /\ other.pc # "off"
          /\ result = NoneVal
          /\ failure \in {"mkdir", "rmdir"}
       \/ /\ other.pc # "off"
          /\ \E w \in Workers : other.ident = Ident(w)
          /\ Keys(results) # 1..images
          /\ result = Some(SectionsOf(1, images, Keys(results)))

SharedRmdirFailure ==
  (pc = "rmdir" /\ pc' = "returned" /\ FailedPages = {})
    => /\ other.pc # "off"
       /\ failure' = "rmdir"
       /\ (~dirExists \/ files = {OtherPath})

\* C18: with another run at work in the same directory, a run that meets no
\* failure of its own returns its full Document, or None, or (when the two
\* processes' thread idents coincide) a Document without some of its pages;
\* and when its removal of the directory fails, the directory is gone,
\* removed by the other run, or it holds the other run's page file.
C18_SharedDirectoryCollision ==
  [](SharedOutcome) /\ [][SharedRmdirFailure]_vars

\* A run of several pages, all of them recorded, returned None: its removal
\* of the directory found the other run's page file.
C18_Witness ==
  /\ CleanRun
  /\ images >= 2
  /\ Keys(results) = 1..images
  /\ result = NoneVal
  /\ failure = "rmdir"
  /\ dirExists
  /\ OtherPath \in files

====
